---- MODULE Spec2Model ----
(***************************************************************************)
(* A model of storage/raft_transport.go: the outbound side of the Raft     *)
(* transport (RaftSender.SendAsync, RaftTransport.processQueue,            *)
(* RaftTransport.resolveNodeID), the reader worker of an outbound stream,  *)
(* the consumer of SnapshotStatusChan and the stopper's two signals.       *)
(*                                                                         *)
(* Every Go channel that the code makes is an object of the model: the     *)
(* per-destination queue made at line 332 is the channel number c, and the *)
(* worker started for it at line 340 is the pump c.  The completion signal *)
(* made at line 189 by pump c is the ledger channel c.                      *)
(***************************************************************************)
EXTENDS Naturals, Sequences, FiniteSets

\* ------------------------------------------------------------------ bounds

\* Number of SendAsync calls made in a behaviour (each call sends a fresh
\* envelope, identified by the number of the call).
MaxSends == 3

\* Number of queues made in a behaviour (line 332): a SendAsync that would
\* make one more is not called.
MaxChans == 2

\* Number of SendAsync calls plus number of queues made in a behaviour: three
\* calls on one queue, or two calls on two queues.
MaxWork == 4

\* Capacity of a per-destination queue.  The source sizes it at 100
\* (line 40); the model uses a capacity that the bounded number of sends can
\* fill, and every formula below is stated in terms of this name.
raftSendBufferSize == 2

\* Envelopes the remote sends on the inbound stream.
MaxRecv == 3

\* ------------------------------------------------------------------ values

\* The callers: goroutines of the consensus core, each with its own RaftSender
\* and its own error callback.
Callers == {1, 2}
\* The destination replicas.
Replicas == {1}
Chans == 1..MaxChans

\* raftpb message types: the two heartbeat types, the snapshot type and one
\* representative of every other type.
MsgTypes == {"MsgHeartbeat", "MsgHeartbeatResp", "MsgSnap", "MsgApp"}
RangeIDs == {0, 1}
\* The envelopes the callers send: every type on range 0, and every type on
\* the range it is normally sent on (heartbeats are coalesced on range 0).
Envelopes ==
  {e \in MsgTypes \X RangeIDs :
     e[2] = 0 \/ e[1] \notin {"MsgHeartbeat", "MsgHeartbeatResp"}}

\* roachpb.ReplicaDescriptor.NodeID of a destination replica.
NodeOf(r) == r
Stores == {1, 2}
Handlers == {1, 2}
Nodes == {NodeOf(r) : r \in Replicas}

NoReq == [id |-> 0, to |-> 0, type |-> "none", range |-> 0]

Errors == {"errStopped", "errLookup", "errDial", "errStream", "errRunTask",
           "errRecv", "errSend"}

VARIABLES
  stopper,      \* "running", "quiescing" (ShouldQuiesce closed), "stopped" (ShouldStop closed)
  nextId,       \* number of SendAsync calls made so far
  nchan,        \* number of queues made so far (line 332)
  cpc,          \* per caller: position in SendAsync
  creq,         \* per caller: the envelope of the call in progress
  cch,          \* per caller: the queue found or made under the lock
  queues,       \* t.mu.queues: (replica, isSnap) -> queue, 0 when absent
  chTo,         \* per queue: the destination it was made for
  chSnap,       \* per queue: the class it was made for
  owner,        \* per queue: the caller whose SendAsync made it
  queue,        \* per queue: the buffered envelopes, oldest first
  ppc,          \* per pump: position in the worker of line 340
  perr,         \* per pump: the value processQueue returns
  sreq,         \* per pump: the envelope just written
  serr,         \* per pump: the result of that write
  waitOn,       \* per pump: the ledger channel it waits on (line 195)
  addrLookups,  \* t.mu.addrLookups: node -> ledger channel, 0 when absent
  closedLk,     \* per ledger channel: closed (line 217)
  reader,       \* per pump: the reader worker of line 259
  errCh,        \* per pump: the buffered errCh of line 255
  \* history of what an observer of the program sees
  enq,          \* per queue: ids of the envelopes enqueued, in enqueue order
  wire,         \* per queue: ids of the envelopes passed to stream.Send and the results, in order
  statuses,     \* per queue: RaftSnapshotStatus values received from SnapshotStatusChan
  cbLog,        \* per pump: arguments of the onError call of line 341 its worker is in
  ncb,          \* per pump: number of onError calls of line 341 made
  spawnCb,      \* per queue: number of onError calls of line 348
  exitAt,       \* per pump: the return statement processQueue left by
  resolverCalls,\* per pump: whether it has called t.resolver
  rejected,     \* ids of the envelopes whose SendAsync returned false
  mu,           \* t.mu: the worker or caller that holds the mutex, or Free
  handlers,     \* t.mu.handlers: store -> handler, 0 when absent
  spc,          \* position of the RaftMessage call of the inbound stream
  sres,         \* the value RaftMessage returned
  wpc,          \* position of the worker of line 132
  wreq,         \* the envelope the worker received last (its ToReplica.StoreID)
  whandler,     \* the handler the worker found for it (line 141)
  inErrCh,      \* the buffered errCh of line 128
  nrecv,        \* number of envelopes stream.Recv has returned
  dispatched    \* the handler calls made: the envelope's number, its store, the handler, the result

vars == <<stopper, nextId, nchan, cpc, creq, cch, queues, chTo, chSnap, owner,
          queue, ppc, perr, sreq, serr, waitOn, addrLookups, closedLk, reader,
          errCh, enq, wire, statuses, cbLog, ncb, spawnCb, exitAt,
          resolverCalls, rejected, mu, handlers, spc, sres, wpc, wreq,
          whandler, inErrCh, nrecv, dispatched>>

callerVars == <<nextId, cpc, creq, cch, rejected>>
registryVars == <<nchan, queues, chTo, chSnap, owner>>
pumpVars == <<ppc, perr, sreq, serr, exitAt>>
resolveVars == <<waitOn, addrLookups, closedLk, resolverCalls>>
readerVars == <<reader, errCh>>
wireVars == <<wire, statuses>>
cbVars == <<cbLog, ncb, spawnCb>>
inVars == <<handlers, spc, sres, wpc, wreq, whandler, inErrCh, nrecv, dispatched>>

Keys == Replicas \X BOOLEAN

\* The holders of t.mu: the worker of a queue, a caller of SendAsync, the
\* worker of the inbound stream, a caller of Listen or Stop; or nobody.
Free == <<"free", 0>>
PumpThread(c) == <<"pump", c>>
CallerThread(k) == <<"caller", k>>
InboundThread == <<"inbound", 0>>
StoreThread(s) == <<"store", s>>

\* t.mu.Lock() ... t.mu.Unlock() around one step: p has the mutex, or takes it
\* now that it is free, and gives it back.
Mutex(p) == mu \in {Free, p} /\ mu' = Free

Init ==
  /\ stopper = "running"
  /\ nextId = 0
  /\ nchan = 0
  /\ cpc = [k \in Callers |-> "idle"]
  /\ creq = [k \in Callers |-> NoReq]
  /\ cch = [k \in Callers |-> 0]
  /\ queues = [key \in Keys |-> 0]
  /\ chTo = [c \in Chans |-> 0]
  /\ chSnap = [c \in Chans |-> FALSE]
  /\ owner = [c \in Chans |-> 0]
  /\ queue = [c \in Chans |-> <<>>]
  /\ ppc = [c \in Chans |-> "none"]
  /\ perr = [c \in Chans |-> "nil"]
  /\ sreq = [c \in Chans |-> NoReq]
  /\ serr = [c \in Chans |-> "nil"]
  /\ waitOn = [c \in Chans |-> 0]
  /\ addrLookups = [n \in Nodes |-> 0]
  /\ closedLk = [c \in Chans |-> FALSE]
  /\ reader = [c \in Chans |-> "none"]
  /\ errCh = [c \in Chans |-> "empty"]
  /\ enq = [c \in Chans |-> <<>>]
  /\ wire = [c \in Chans |-> <<>>]
  /\ statuses = [c \in Chans |-> <<>>]
  /\ cbLog = [c \in Chans |-> <<>>]
  /\ ncb = [c \in Chans |-> 0]
  /\ spawnCb = [c \in Chans |-> 0]
  /\ exitAt = [c \in Chans |-> "none"]
  /\ resolverCalls = [c \in Chans |-> FALSE]
  /\ rejected = {}
  /\ mu = Free
  /\ handlers = [s \in Stores |-> 0]
  /\ spc = "none"
  /\ sres = "none"
  /\ wpc = "none"
  /\ wreq = 0
  /\ whandler = 0
  /\ inErrCh = "empty"
  /\ nrecv = 0
  /\ dispatched = <<>>

\* ------------------------------------------------------------------ stopper

\* stop.Stopper: Quiesce closes ShouldQuiesce and makes RunTask fail; Stop
\* closes ShouldStop once the stopper has quiesced.
Quiesce ==
  /\ stopper = "running"
  /\ stopper' = "quiescing"
  /\ UNCHANGED <<inVars, callerVars, registryVars, queue, pumpVars, resolveVars,
                 readerVars, enq, wireVars, cbVars>>
  /\ UNCHANGED mu

Stop ==
  /\ stopper = "quiescing"
  /\ stopper' = "stopped"
  /\ UNCHANGED <<inVars, callerVars, registryVars, queue, pumpVars, resolveVars,
                 readerVars, enq, wireVars, cbVars>>
  /\ UNCHANGED mu

ShouldQuiesce == stopper # "running"
ShouldStop == stopper = "stopped"
\* Stopper.RunTask returns an error once the stopper is draining.
RunTaskOK == stopper = "running"

\* ------------------------------------------------------------------ SendAsync

\* MustPanic with the heartbeat response left out of isHeartbeat.
MustPanic_NoResp(req) ==
  LET isHeartbeat == req.type = "MsgHeartbeat"
  IN req.range = 0 /\ ~isHeartbeat

\* Lines 313-315: the envelope is one SendAsync panics on.
MustPanic(req) ==
  LET isHeartbeat == req.type = "MsgHeartbeat" \/ req.type = "MsgHeartbeatResp"
  IN req.range = 0 /\ ~isHeartbeat

\* IsSnap putting every envelope in the same class.
IsSnap_Never(req) == FALSE

\* Line 320.
IsSnap(req) == req.type = "MsgSnap"

\* HasRoom with the capacity off by one.
HasRoom_OneMore(q) == Len(q) <= raftSendBufferSize

\* Lines 352-357: the non-blocking send finds room in the buffered channel.
HasRoom(q) == Len(q) < raftSendBufferSize

NewReq(r, t, g) == [id |-> nextId + 1, to |-> r, type |-> t, range |-> g]

\* Lines 313-319: the panic, before the lock is taken.
SendAsyncPanic(k, r, t, g) ==
  /\ cpc[k] = "idle"
  /\ MustPanic(NewReq(r, t, g))
  /\ nextId' = nextId + 1
  /\ cpc' = [cpc EXCEPT ![k] = "panicked"]
  /\ creq' = [creq EXCEPT ![k] = NewReq(r, t, g)]
  /\ UNCHANGED <<inVars, stopper, cch, rejected, registryVars, queue,
                 pumpVars, resolveVars, readerVars, enq, wireVars, cbVars>>
  /\ UNCHANGED mu

\* SendAsyncLookup making a queue whether or not the registry holds one.
SendAsyncLookup_Always(k, r, t, g) ==
  LET req == NewReq(r, t, g)
      key == <<req.to, IsSnap(req)>>
  IN
  /\ cpc[k] = "idle"
  /\ ~MustPanic(req)
  /\ nextId' = nextId + 1
  /\ creq' = [creq EXCEPT ![k] = req]
  /\ nchan' = nchan + 1
  /\ queues' = [queues EXCEPT ![key] = nchan + 1]
  /\ chTo' = [chTo EXCEPT ![nchan + 1] = req.to]
  /\ chSnap' = [chSnap EXCEPT ![nchan + 1] = IsSnap(req)]
  /\ owner' = [owner EXCEPT ![nchan + 1] = k]
  /\ cch' = [cch EXCEPT ![k] = nchan + 1]
  /\ cpc' = [cpc EXCEPT ![k] = "spawn"]
  /\ UNCHANGED <<inVars, stopper, rejected, queue, pumpVars,
                 resolveVars, readerVars, enq, wireVars, cbVars>>
  /\ Mutex(CallerThread(k))

\* Lines 320-335: under the lock, find the queue of (toReplica, isSnap) or make it.
SendAsyncLookup(k, r, t, g) ==
  LET req == NewReq(r, t, g)
      key == <<req.to, IsSnap(req)>>
  IN
  /\ cpc[k] = "idle"
  /\ ~MustPanic(req)
  /\ nextId' = nextId + 1
  /\ creq' = [creq EXCEPT ![k] = req]
  /\ IF queues[key] = 0
       THEN /\ nchan' = nchan + 1
            /\ queues' = [queues EXCEPT ![key] = nchan + 1]
            /\ chTo' = [chTo EXCEPT ![nchan + 1] = req.to]
            /\ chSnap' = [chSnap EXCEPT ![nchan + 1] = IsSnap(req)]
            /\ owner' = [owner EXCEPT ![nchan + 1] = k]
            /\ cch' = [cch EXCEPT ![k] = nchan + 1]
            /\ cpc' = [cpc EXCEPT ![k] = "spawn"]
       ELSE /\ cch' = [cch EXCEPT ![k] = queues[key]]
            /\ cpc' = [cpc EXCEPT ![k] = "enqueue"]
            /\ UNCHANGED registryVars
  /\ UNCHANGED <<inVars, stopper, rejected, queue, pumpVars,
                 resolveVars, readerVars, enq, wireVars, cbVars>>
  /\ Mutex(CallerThread(k))

\* Lines 337-350: the caller that made the queue starts its pump; when RunTask
\* fails no worker is started and onError is called by the caller (line 348).
SendAsyncSpawn(k) ==
  /\ cpc[k] = "spawn"
  /\ IF RunTaskOK
       THEN /\ ppc' = [ppc EXCEPT ![cch[k]] = "resolve"]
            /\ UNCHANGED spawnCb
       ELSE /\ spawnCb' = [spawnCb EXCEPT ![cch[k]] = @ + 1]
            /\ UNCHANGED ppc
  /\ cpc' = [cpc EXCEPT ![k] = "enqueue"]
  /\ UNCHANGED <<inVars, stopper, nextId, creq, cch, rejected,
                 registryVars, queue, perr, sreq, serr, exitAt, resolveVars,
                 readerVars, enq, wireVars, cbLog, ncb>>
  /\ UNCHANGED mu

\* Lines 352-357: the non-blocking send on the queue the caller holds.
SendAsyncEnqueue(k) ==
  LET c == cch[k] IN
  /\ cpc[k] = "enqueue"
  /\ IF HasRoom(queue[c])
       THEN /\ queue' = [queue EXCEPT ![c] = Append(@, creq[k])]
            /\ enq' = [enq EXCEPT ![c] = Append(@, creq[k].id)]
            /\ UNCHANGED rejected
       ELSE /\ rejected' = rejected \cup {creq[k].id}
            /\ UNCHANGED <<queue, enq>>
  /\ cpc' = [cpc EXCEPT ![k] = "idle"]
  /\ creq' = [creq EXCEPT ![k] = NoReq]
  /\ cch' = [cch EXCEPT ![k] = 0]
  /\ UNCHANGED <<inVars, stopper, nextId, registryVars, pumpVars,
                 resolveVars, readerVars, wireVars, cbVars>>
  /\ UNCHANGED mu

\* ------------------------------------------------------------------ resolveNodeID

\* What every step of the pump leaves alone.
PumpFrame == UNCHANGED <<inVars, stopper, callerVars, registryVars, enq, spawnCb>>

\* OnErrorArgs with the callback of a sender that did not make the queue.
OnErrorArgs_Other(c, err) ==
  [err |-> err, to |-> chTo[c], by |-> CHOOSE k \in Callers : k # owner[c]]

\* OnErrorArgs dropping the error.
OnErrorArgs_Nil(c, err) == [err |-> "nil", to |-> chTo[c], by |-> owner[c]]

\* The arguments of the onError call of line 341 when processQueue returned err.
OnErrorArgs(c, err) == [err |-> err, to |-> chTo[c], by |-> owner[c]]

\* Return with a worker that calls the callback twice.
Return_Twice(c, at, err) ==
  /\ perr' = [perr EXCEPT ![c] = err]
  /\ exitAt' = [exitAt EXCEPT ![c] = at]
  /\ cbLog' = [cbLog EXCEPT ![c] = @ \o <<OnErrorArgs(c, err), OnErrorArgs(c, err)>>]
  /\ ncb' = [ncb EXCEPT ![c] = @ + 2]
  /\ ppc' = [ppc EXCEPT ![c] = "delete"]

\* processQueue returns err from the return statement at, and the worker
\* hands it to the callback of the sender that started it (line 341).
Return(c, at, err) ==
  /\ perr' = [perr EXCEPT ![c] = err]
  /\ exitAt' = [exitAt EXCEPT ![c] = at]
  /\ cbLog' = [cbLog EXCEPT ![c] = Append(@, OnErrorArgs(c, err))]
  /\ ncb' = [ncb EXCEPT ![c] = @ + 1]
  /\ ppc' = [ppc EXCEPT ![c] = "delete"]

\* The pump goes on to position pc.
Goto(c, pc) ==
  /\ ppc' = [ppc EXCEPT ![c] = pc]
  /\ UNCHANGED <<perr, exitAt, cbLog, ncb>>

\* Line 249: the deferred cancel() of the stream's context ends a reader
\* worker that is still in RecvMsg when processQueue returns.
Cancel(c) ==
  reader' = [reader EXCEPT ![c] = IF @ = "running" THEN "cancelled" ELSE @]

\* ResolveLookup going to the wait with the mutex still held.
ResolveLookup_HoldOnWait(c) ==
  LET n == NodeOf(chTo[c]) IN
  /\ ppc[c] = "resolve"
  /\ mu \in {Free, PumpThread(c)}
  /\ IF addrLookups[n] = 0
       THEN /\ addrLookups' = [addrLookups EXCEPT ![n] = c]
            /\ Goto(c, "attempt")
            /\ mu' = Free
            /\ UNCHANGED waitOn
       ELSE /\ waitOn' = [waitOn EXCEPT ![c] = addrLookups[n]]
            /\ Goto(c, "wait")
            /\ mu' = PumpThread(c)
            /\ UNCHANGED addrLookups
  /\ UNCHANGED <<queue, sreq, serr, closedLk, resolverCalls, readerVars, wireVars>>
  /\ PumpFrame

\* Lines 186-192: under the lock, find the ledger entry of the node or install one.
ResolveLookup(c) ==
  LET n == NodeOf(chTo[c]) IN
  /\ ppc[c] = "resolve"
  /\ IF addrLookups[n] = 0
       THEN /\ addrLookups' = [addrLookups EXCEPT ![n] = c]
            /\ Goto(c, "attempt")
            /\ UNCHANGED waitOn
       ELSE /\ waitOn' = [waitOn EXCEPT ![c] = addrLookups[n]]
            /\ Goto(c, "wait")
            /\ UNCHANGED addrLookups
  /\ UNCHANGED <<queue, sreq, serr, closedLk, resolverCalls, readerVars, wireVars>>
  /\ PumpFrame
  /\ Mutex(PumpThread(c))

\* What a waiter returns once the completion signal is closed (line 196): the
\* result of its own call of t.resolver.
WaiterResult(ok) == IF ok THEN "nil" ELSE "errLookup"

\* Lines 194-196: the ledger channel is closed; the waiter calls t.resolver
\* once and returns what it returns.
ResolveWaitDone(c, ok) ==
  /\ ppc[c] = "wait"
  /\ closedLk[waitOn[c]]
  /\ resolverCalls' = [resolverCalls EXCEPT ![c] = TRUE]
  /\ IF WaiterResult(ok) = "nil"
       THEN Goto(c, "dial")
       ELSE Return(c, "resolve", WaiterResult(ok))
  /\ UNCHANGED <<queue, sreq, serr, waitOn, addrLookups, closedLk, readerVars,
                 wireVars>>
  /\ PumpFrame
  /\ UNCHANGED mu

\* Lines 197-198: the waiter sees ShouldQuiesce.
ResolveWaitQuiesce(c) ==
  /\ ppc[c] = "wait"
  /\ ShouldQuiesce
  /\ Return(c, "resolve", "errStopped")
  /\ UNCHANGED <<queue, sreq, serr, resolveVars, readerVars, wireVars>>
  /\ PumpFrame
  /\ UNCHANGED mu

\* Lines 214-224: one attempt of the retry loop.  A success closes the ledger
\* channel and returns through the deferred delete; a failure goes to the
\* backoff wait of r.Next().
ResolveAttempt(c, ok) ==
  /\ ppc[c] = "attempt"
  /\ resolverCalls' = [resolverCalls EXCEPT ![c] = TRUE]
  /\ IF ok
       THEN /\ closedLk' = [closedLk EXCEPT ![c] = TRUE]
            /\ Goto(c, "unlookup")
       ELSE /\ Goto(c, "backoff")
            /\ UNCHANGED closedLk
  /\ UNCHANGED <<queue, sreq, serr, waitOn, addrLookups, readerVars, wireVars>>
  /\ PumpFrame
  /\ UNCHANGED mu

\* Line 214, r.Next(): the backoff elapses and the loop goes round.
ResolveBackoff(c) ==
  /\ ppc[c] = "backoff"
  /\ Goto(c, "attempt")
  /\ UNCHANGED <<queue, sreq, serr, resolveVars, readerVars, wireVars>>
  /\ PumpFrame
  /\ UNCHANGED mu

\* Lines 212, 214, 226: r.Next() sees the Closer, the loop ends and the call
\* is about to return the "stopped before completion" error.
ResolveClosed(c) ==
  /\ ppc[c] = "backoff"
  /\ ShouldQuiesce
  /\ perr' = [perr EXCEPT ![c] = "errStopped"]
  /\ ppc' = [ppc EXCEPT ![c] = "unlookup"]
  /\ UNCHANGED <<queue, sreq, serr, exitAt, cbLog, ncb, resolveVars,
                 readerVars, wireVars>>
  /\ PumpFrame
  /\ UNCHANGED mu

\* ResolveUnlookup with the delete on the success path only, not deferred.
ResolveUnlookup_OnSuccess(c) ==
  /\ ppc[c] = "unlookup"
  /\ IF perr[c] = "nil"
       THEN /\ addrLookups' = [addrLookups EXCEPT ![NodeOf(chTo[c])] = 0]
            /\ Goto(c, "dial")
       ELSE /\ UNCHANGED addrLookups
            /\ Return(c, "resolve", perr[c])
  /\ UNCHANGED <<queue, sreq, serr, waitOn, closedLk, resolverCalls,
                 readerVars, wireVars>>
  /\ PumpFrame
  /\ Mutex(PumpThread(c))

\* Lines 202-206: the deferred delete of the ledger entry, under the lock, as
\* the retrying call returns.
ResolveUnlookup(c) ==
  /\ ppc[c] = "unlookup"
  /\ addrLookups' = [addrLookups EXCEPT ![NodeOf(chTo[c])] = 0]
  /\ IF perr[c] = "nil"
       THEN Goto(c, "dial")
       ELSE Return(c, "resolve", perr[c])
  /\ UNCHANGED <<queue, sreq, serr, waitOn, closedLk, resolverCalls,
                 readerVars, wireVars>>
  /\ PumpFrame
  /\ Mutex(PumpThread(c))

\* ------------------------------------------------------------------ processQueue

\* Lines 242-253: GRPCDial, then client.RaftMessage opens the stream; either
\* may fail, and res is the first error (or nil).
Connect(c, res) ==
  /\ ppc[c] = "dial"
  /\ IF res = "nil"
       THEN Goto(c, "startReader")
       ELSE Return(c, IF res = "errDial" THEN "dial" ELSE "stream", res)
  /\ UNCHANGED <<queue, sreq, serr, resolveVars, readerVars, wireVars>>
  /\ PumpFrame
  /\ UNCHANGED mu

\* Lines 255-264: the reader worker is started in a task.
StartReader(c) ==
  /\ ppc[c] = "startReader"
  /\ IF RunTaskOK
       THEN /\ reader' = [reader EXCEPT ![c] = "running"]
            /\ Goto(c, "loop")
       ELSE /\ Return(c, "runTask", "errRunTask")
            /\ UNCHANGED reader
  /\ UNCHANGED <<queue, sreq, serr, resolveVars, errCh, wireVars>>
  /\ PumpFrame
  /\ UNCHANGED mu

\* Line 260: stream.RecvMsg returns in the reader worker (a response from the
\* remote, nil, or an error), and the result is put on errCh.
ReaderRecv(c, res) ==
  /\ reader[c] = "running"
  /\ reader' = [reader EXCEPT ![c] = "done"]
  /\ errCh' = [errCh EXCEPT ![c] = res]
  /\ UNCHANGED <<queue, pumpVars, cbLog, ncb, resolveVars, wireVars>>
  /\ PumpFrame
  /\ UNCHANGED mu

\* LoopStop returning an error for the stop.
LoopStop_Err(c) ==
  /\ ppc[c] = "loop"
  /\ ShouldStop
  /\ Return(c, "stop", "errStopped")
  /\ Cancel(c)
  /\ UNCHANGED <<queue, sreq, serr, resolveVars, errCh, wireVars>>
  /\ PumpFrame
  /\ UNCHANGED mu

\* Lines 271-272.
LoopStop(c) ==
  /\ ppc[c] = "loop"
  /\ ShouldStop
  /\ Return(c, "stop", "nil")
  /\ Cancel(c)
  /\ UNCHANGED <<queue, sreq, serr, resolveVars, errCh, wireVars>>
  /\ PumpFrame
  /\ UNCHANGED mu

\* Lines 273-275: the idle timer fires.
LoopIdle(c) ==
  /\ ppc[c] = "loop"
  /\ Return(c, "idle", "nil")
  /\ Cancel(c)
  /\ UNCHANGED <<queue, sreq, serr, resolveVars, errCh, wireVars>>
  /\ PumpFrame
  /\ UNCHANGED mu

\* LoopErrCh taking the reader's result and going round the loop.
LoopErrCh_Continue(c) ==
  /\ ppc[c] = "loop"
  /\ errCh[c] # "empty"
  /\ errCh' = [errCh EXCEPT ![c] = "empty"]
  /\ Goto(c, "loop")
  /\ UNCHANGED <<queue, sreq, serr, resolveVars, reader, wireVars>>
  /\ PumpFrame
  /\ UNCHANGED mu

\* Lines 276-277: the reader's result is taken from errCh and returned.
LoopErrCh(c) ==
  /\ ppc[c] = "loop"
  /\ errCh[c] # "empty"
  /\ errCh' = [errCh EXCEPT ![c] = "empty"]
  /\ Return(c, "reader", errCh[c])
  /\ UNCHANGED <<queue, sreq, serr, resolveVars, reader, wireVars>>
  /\ PumpFrame
  /\ UNCHANGED mu

\* Dequeued taking the newest envelope of the queue.
Dequeued_Newest(q) == q[Len(q)]

\* Line 278: the envelope a receive from the queue yields.
Dequeued(q) == Head(q)

\* Remaining with a receive that leaves the envelope in the queue.
Remaining_Keep(q) == q

\* Line 278: what the receive leaves in the queue.
Remaining(q) == Tail(q)

\* Lines 278-290: an envelope is taken from the queue and written with
\* stream.Send, which returns werr.  A snapshot goes on to publish its status;
\* any other envelope ends the pump when the write failed.
LoopSend(c, werr) ==
  LET req == Dequeued(queue[c]) IN
  /\ ppc[c] = "loop"
  /\ queue[c] # <<>>
  /\ queue' = [queue EXCEPT ![c] = Remaining(@)]
  /\ wire' = [wire EXCEPT ![c] = Append(@, [id |-> req.id, err |-> werr])]
  /\ IF IsSnap(req)
       THEN /\ sreq' = [sreq EXCEPT ![c] = req]
            /\ serr' = [serr EXCEPT ![c] = werr]
            /\ Goto(c, "publish")
            /\ UNCHANGED reader
       ELSE /\ IF werr # "nil"
                 THEN Return(c, "write", werr) /\ Cancel(c)
                 ELSE Goto(c, "loop") /\ UNCHANGED reader
            /\ UNCHANGED <<sreq, serr>>
  /\ UNCHANGED <<resolveVars, errCh, statuses>>
  /\ PumpFrame
  /\ UNCHANGED mu

\* The publish without its ShouldStop case: only a receive from
\* SnapshotStatusChan lets the pump go on.
PublishStop_NoStopCase(c) ==
  /\ ppc[c] = "publish"
  /\ FALSE
  /\ UNCHANGED vars

\* Lines 282-283.
PublishStop(c) ==
  /\ ppc[c] = "publish"
  /\ ShouldStop
  /\ Return(c, "stop", "nil")
  /\ Cancel(c)
  /\ sreq' = [sreq EXCEPT ![c] = NoReq]
  /\ serr' = [serr EXCEPT ![c] = "nil"]
  /\ UNCHANGED <<queue, resolveVars, errCh, wireVars>>
  /\ PumpFrame
  /\ UNCHANGED mu

\* Status dropping the result of the write.
Status_NoErr(req, err) == [id |-> req.id, err |-> "nil"]

\* The RaftSnapshotStatus sent at line 284.
Status(req, err) == [id |-> req.id, err |-> err]

\* Lines 284-290: the consumer of SnapshotStatusChan receives the status (the
\* channel is unbuffered: send and receive are one step); a failed write then
\* ends the pump.
PublishStatus(c) ==
  /\ ppc[c] = "publish"
  /\ statuses' = [statuses EXCEPT ![c] = Append(@, Status(sreq[c], serr[c]))]
  /\ IF serr[c] # "nil"
       THEN Return(c, "write", serr[c]) /\ Cancel(c)
       ELSE Goto(c, "loop") /\ UNCHANGED reader
  /\ sreq' = [sreq EXCEPT ![c] = NoReq]
  /\ serr' = [serr EXCEPT ![c] = "nil"]
  /\ UNCHANGED <<queue, resolveVars, errCh, wire>>
  /\ PumpFrame
  /\ UNCHANGED mu

\* DeleteQueue leaving the entry in the registry.
DeleteQueue_Keep(c) ==
  /\ ppc[c] = "delete"
  /\ ppc' = [ppc EXCEPT ![c] = "done"]
  /\ perr' = [perr EXCEPT ![c] = "nil"]
  /\ exitAt' = [exitAt EXCEPT ![c] = "none"]
  /\ cbLog' = [cbLog EXCEPT ![c] = <<>>]
  /\ UNCHANGED <<inVars, stopper, callerVars, registryVars, queue, sreq, serr,
                 resolveVars, readerVars, enq, wireVars, ncb, spawnCb>>
  /\ Mutex(PumpThread(c))

\* Lines 341-345: the callback returns, the worker deletes the entry of its
\* destination from the map of its class, under the lock, and ends; what was
\* local to the worker ends with it.
DeleteQueue(c) ==
  /\ ppc[c] = "delete"
  /\ queues' = [queues EXCEPT ![<<chTo[c], chSnap[c]>>] = 0]
  /\ ppc' = [ppc EXCEPT ![c] = "done"]
  /\ perr' = [perr EXCEPT ![c] = "nil"]
  /\ exitAt' = [exitAt EXCEPT ![c] = "none"]
  /\ cbLog' = [cbLog EXCEPT ![c] = <<>>]
  /\ UNCHANGED <<inVars, stopper, callerVars, nchan, chTo, chSnap, owner, queue,
                 sreq, serr, resolveVars, readerVars, enq, wireVars, ncb,
                 spawnCb>>
  /\ Mutex(PumpThread(c))

\* ------------------------------------------------------------------ specification

Oks == BOOLEAN
ConnectResults == {"nil", "errDial", "errStream"}
SendResults == {"nil", "errSend"}
RecvResults == {"nil", "errRecv"}

\* The bounds on the callers: a call of SendAsync is made while fewer than
\* MaxSends calls were made and, with the queue it would make, the calls and
\* the queues made stay within work, and the queues within MaxChans.
MaySend(r, t, g, work) ==
  LET makes == IF ~MustPanic(NewReq(r, t, g)) /\ queues[<<r, t = "MsgSnap">>] = 0
                 THEN 1 ELSE 0
  IN /\ nextId < MaxSends
     /\ nchan + makes <= MaxChans
     /\ nextId + 1 + nchan + makes <= work

\* The steps of the stopper, of the callers once in SendAsync, of the pumps
\* and of their readers.
Step ==
  \/ Quiesce
  \/ Stop
  \/ \E k \in Callers : SendAsyncSpawn(k)
  \/ \E k \in Callers : SendAsyncEnqueue(k)
  \/ \E c \in Chans : ResolveLookup(c)
  \/ \E c \in Chans, ok \in Oks : ResolveWaitDone(c, ok)
  \/ \E c \in Chans : ResolveWaitQuiesce(c)
  \/ \E c \in Chans, ok \in Oks : ResolveAttempt(c, ok)
  \/ \E c \in Chans : ResolveBackoff(c)
  \/ \E c \in Chans : ResolveClosed(c)
  \/ \E c \in Chans : ResolveUnlookup(c)
  \/ \E c \in Chans, res \in ConnectResults : Connect(c, res)
  \/ \E c \in Chans : StartReader(c)
  \/ \E c \in Chans, res \in RecvResults : ReaderRecv(c, res)
  \/ \E c \in Chans : LoopStop(c)
  \/ \E c \in Chans : LoopIdle(c)
  \/ \E c \in Chans : LoopErrCh(c)
  \/ \E c \in Chans, werr \in SendResults : LoopSend(c, werr)
  \/ \E c \in Chans : PublishStop(c)
  \/ \E c \in Chans : PublishStatus(c)
  \/ \E c \in Chans : DeleteQueue(c)

\* Two callers send concurrently, every envelope of Envelopes, within MaxWork.
\* The callers are interchangeable: the one that makes the first call is
\* caller 1.
Next ==
  \/ \E k \in Callers, r \in Replicas, e \in Envelopes :
       /\ MaySend(r, e[1], e[2], MaxWork)
       /\ nextId = 0 => k = 1
       /\ SendAsyncPanic(k, r, e[1], e[2])
  \/ \E k \in Callers, r \in Replicas, e \in Envelopes :
       /\ MaySend(r, e[1], e[2], MaxWork)
       /\ nextId = 0 => k = 1
       /\ SendAsyncLookup(k, r, e[1], e[2])
  \/ Step

Spec == Init /\ [][Next]_vars

\* One caller sends heartbeats and snapshots, up to MaxSends calls on up to
\* MaxChans queues.
SoloEnvelopes == {<<"MsgHeartbeat", 0>>, <<"MsgSnap", 1>>, <<"MsgSnap", 0>>}

NextSolo ==
  \/ \E r \in Replicas, e \in SoloEnvelopes :
       /\ MaySend(r, e[1], e[2], MaxSends + MaxChans)
       /\ SendAsyncPanic(1, r, e[1], e[2])
  \/ \E r \in Replicas, e \in SoloEnvelopes :
       /\ MaySend(r, e[1], e[2], MaxSends + MaxChans)
       /\ SendAsyncLookup(1, r, e[1], e[2])
  \/ Step

SpecSolo == Init /\ [][NextSolo]_vars

\* ------------------------------------------------------------------ inbound

outVars == <<callerVars, registryVars, queue, pumpVars, resolveVars, readerVars,
             enq, wireVars, cbVars>>

\* Lines 169-173.
Listen(s, h) ==
  /\ handlers' = [handlers EXCEPT ![s] = h]
  /\ Mutex(StoreThread(s))
  /\ UNCHANGED <<stopper, outVars, spc, sres, wpc, wreq, whandler, inErrCh,
                 nrecv, dispatched>>

\* Lines 176-180, RaftTransport.Stop: the handler of the store is removed.
StopListening(s) ==
  /\ handlers' = [handlers EXCEPT ![s] = 0]
  /\ Mutex(StoreThread(s))
  /\ UNCHANGED <<stopper, outVars, spc, sres, wpc, wreq, whandler, inErrCh,
                 nrecv, dispatched>>

\* Lines 127-158: the call makes errCh and starts its worker in a task; when
\* RunTask fails it returns that error.
RaftMessage ==
  /\ spc = "none"
  /\ IF RunTaskOK
       THEN /\ spc' = "select"
            /\ wpc' = "recv"
            /\ UNCHANGED sres
       ELSE /\ spc' = "returned"
            /\ sres' = "errRunTask"
            /\ UNCHANGED wpc
  /\ UNCHANGED <<stopper, outVars, mu, handlers, wreq, whandler, inErrCh,
                 nrecv, dispatched>>

\* Line 135: stream.Recv returns an envelope for store s.
WorkerRecv(s) ==
  /\ wpc = "recv"
  /\ nrecv < MaxRecv
  /\ nrecv' = nrecv + 1
  /\ wreq' = s
  /\ wpc' = "lookup"
  /\ UNCHANGED <<stopper, outVars, mu, handlers, spc, sres, whandler, inErrCh,
                 dispatched>>

\* Lines 135-138: stream.Recv fails; the error goes to errCh (line 133).
WorkerRecvErr ==
  /\ wpc = "recv"
  /\ inErrCh' = "errRecv"
  /\ wpc' = "done"
  /\ UNCHANGED <<stopper, outVars, mu, handlers, spc, sres, wreq, whandler,
                 nrecv, dispatched>>

\* Lines 140-148: under the lock, the handler of the envelope's store is
\* looked up; without one the worker ends with the "no store registered" error.
WorkerLookup ==
  /\ wpc = "lookup"
  /\ Mutex(InboundThread)
  /\ IF handlers[wreq] = 0
       THEN /\ inErrCh' = "errNoStore"
            /\ wpc' = "done"
            /\ UNCHANGED whandler
       ELSE /\ whandler' = handlers[wreq]
            /\ wpc' = "handle"
            /\ UNCHANGED inErrCh
  /\ UNCHANGED <<stopper, outVars, handlers, spc, sres, wreq, nrecv, dispatched>>

\* WorkerHandle going on after the handler failed.
WorkerHandle_IgnoreErr(res) ==
  /\ wpc = "handle"
  /\ dispatched' = Append(dispatched, [n |-> nrecv, store |-> wreq,
                                        handler |-> whandler, res |-> res])
  /\ wpc' = "recv"
  /\ UNCHANGED <<stopper, outVars, mu, handlers, spc, sres, wreq, whandler,
                 inErrCh, nrecv>>

\* Lines 150-152: the handler is called with the envelope; its error ends the
\* worker.
WorkerHandle(res) ==
  /\ wpc = "handle"
  /\ dispatched' = Append(dispatched, [n |-> nrecv, store |-> wreq,
                                        handler |-> whandler, res |-> res])
  /\ IF res = "nil"
       THEN wpc' = "recv" /\ UNCHANGED inErrCh
       ELSE wpc' = "done" /\ inErrCh' = res
  /\ UNCHANGED <<stopper, outVars, mu, handlers, spc, sres, wreq, whandler, nrecv>>

\* Lines 161-162: RaftMessage takes the worker's error from errCh and returns it.
ServeErrCh ==
  /\ spc = "select"
  /\ inErrCh # "empty"
  /\ sres' = inErrCh
  /\ inErrCh' = "empty"
  /\ spc' = "returned"
  /\ UNCHANGED <<stopper, outVars, mu, handlers, wpc, wreq, whandler, nrecv,
                 dispatched>>

\* Lines 163-164: RaftMessage sees ShouldQuiesce and returns the result of
\* stream.SendAndClose.
ServeQuiesce ==
  /\ spc = "select"
  /\ ShouldQuiesce
  /\ sres' = "closed"
  /\ spc' = "returned"
  /\ UNCHANGED <<stopper, outVars, mu, handlers, wpc, wreq, whandler, inErrCh,
                 nrecv, dispatched>>

HandlerResults == {"nil", "errHandler"}

\* One inbound stream of up to MaxRecv envelopes, with stores that register
\* and unregister handlers meanwhile.
NextInbound ==
  \/ Quiesce
  \/ Stop
  \/ \E s \in Stores, h \in Handlers : Listen(s, h)
  \/ \E s \in Stores : StopListening(s)
  \/ RaftMessage
  \/ \E s \in Stores : WorkerRecv(s)
  \/ WorkerRecvErr
  \/ WorkerLookup
  \/ \E res \in HandlerResults : WorkerHandle(res)
  \/ ServeErrCh
  \/ ServeQuiesce

SpecInbound == Init /\ [][NextInbound]_vars

\* The steps of the worker of queue c that do not wait for the idle timer, and
\* the receive of the status it publishes.
PumpStep(c) ==
  \/ ResolveLookup(c)
  \/ \E ok \in Oks : ResolveWaitDone(c, ok)
  \/ ResolveWaitQuiesce(c)
  \/ \E ok \in Oks : ResolveAttempt(c, ok)
  \/ ResolveBackoff(c)
  \/ ResolveClosed(c)
  \/ ResolveUnlookup(c)
  \/ \E res \in ConnectResults : Connect(c, res)
  \/ StartReader(c)
  \/ LoopStop(c)
  \/ LoopErrCh(c)
  \/ \E werr \in SendResults : LoopSend(c, werr)
  \/ PublishStop(c)
  \/ PublishStatus(c)
  \/ DeleteQueue(c)

\* Every worker goroutine that can take a step is scheduled, the mutex is
\* granted, and the owner of SnapshotStatusChan receives from it (line 108).
\* Nothing obliges the idle timer to fire, the remote to answer or a caller to
\* send.
Fairness == \A c \in Chans : WF_vars(PumpStep(c))

\* One caller sends heartbeats and snapshots within MaxWork.
NextFair ==
  \/ \E r \in Replicas, e \in SoloEnvelopes :
       /\ MaySend(r, e[1], e[2], MaxWork)
       /\ SendAsyncPanic(1, r, e[1], e[2])
  \/ \E r \in Replicas, e \in SoloEnvelopes :
       /\ MaySend(r, e[1], e[2], MaxWork)
       /\ SendAsyncLookup(1, r, e[1], e[2])
  \/ Step

FairSpec == Init /\ [][NextFair]_vars /\ Fairness

\* ------------------------------------------------------------------ shutdown

\* The steps the worker of queue c takes by itself once it is scheduled: not
\* the receive of the status it publishes and not the fire of the idle timer.
StopStep(c) ==
  \/ ResolveLookup(c)
  \/ ResolveWaitDone(c, TRUE)
  \/ ResolveWaitQuiesce(c)
  \/ \E ok \in Oks : ResolveAttempt(c, ok)
  \/ ResolveBackoff(c)
  \/ ResolveClosed(c)
  \/ ResolveUnlookup(c)
  \/ Connect(c, "nil")
  \/ StartReader(c)
  \/ LoopStop(c)
  \/ LoopErrCh(c)
  \/ LoopSend(c, "nil")
  \/ PublishStop(c)
  \/ DeleteQueue(c)

\* One caller sends heartbeats and snapshots within MaxWork, the stopper
\* quiesces and stops at any time, the remote may close an outbound stream, and
\* one inbound stream is served.  Dials and writes succeed.
NextStop ==
  \/ \E r \in Replicas, e \in {<<"MsgHeartbeat", 0>>, <<"MsgSnap", 1>>} :
       /\ MaySend(r, e[1], e[2], MaxWork)
       /\ SendAsyncLookup(1, r, e[1], e[2])
  \/ Quiesce
  \/ Stop
  \/ SendAsyncSpawn(1)
  \/ SendAsyncEnqueue(1)
  \/ \E c \in Chans : StopStep(c)
  \/ \E c \in Chans : ReaderRecv(c, "errRecv")
  \/ \E c \in Chans : PublishStatus(c)
  \/ RaftMessage
  \/ WorkerRecvErr
  \/ ServeErrCh
  \/ ServeQuiesce

\* Every worker goroutine that can take a step is scheduled.  The select of
\* r.Next() (line 214) takes the closed Closer when it is offered it again and
\* again, the select of RaftMessage (lines 160-165) takes a case that is ready,
\* and the Recv of the inbound worker (line 135) fails once RaftMessage has
\* returned and the stream is over.  Nobody is obliged to receive from
\* SnapshotStatusChan, and no timer or remote is obliged to act.
StopFairness ==
  /\ \A c \in Chans : WF_vars(StopStep(c)) /\ SF_vars(ResolveClosed(c))
  /\ WF_vars(ServeErrCh \/ ServeQuiesce)
  /\ WF_vars(spc = "returned" /\ WorkerRecvErr)

SpecStop == Init /\ [][NextStop]_vars /\ StopFairness

\* ------------------------------------------------------------------ mutex

\* The positions at which a pump calls t.mu.Lock(): lines 186, 203 and 343.
PumpLocks == {"resolve", "unlookup", "delete"}

\* The worker of queue c takes the mutex and is preempted before it goes on.
LockPump(c) ==
  /\ ppc[c] \in PumpLocks
  /\ mu = Free
  /\ mu' = PumpThread(c)
  /\ UNCHANGED <<stopper, outVars, inVars>>

\* Line 322: a caller of SendAsync, past the test of lines 313-319, takes the
\* mutex and is preempted.
LockCaller(k) ==
  /\ cpc[k] = "idle"
  /\ mu = Free
  /\ mu' = CallerThread(k)
  /\ UNCHANGED <<stopper, outVars, inVars>>

\* Line 140: the inbound worker takes the mutex and is preempted.
LockInbound ==
  /\ wpc = "lookup"
  /\ mu = Free
  /\ mu' = InboundThread
  /\ UNCHANGED <<stopper, outVars, inVars>>

\* Lines 170 and 177: a caller of Listen or Stop takes the mutex and is
\* preempted.
LockStore(s) ==
  /\ mu = Free
  /\ mu' = StoreThread(s)
  /\ UNCHANGED <<stopper, outVars, inVars>>

\* One caller sends heartbeats and snapshots within MaxWork, one store
\* registers and unregisters its handler, one envelope arrives on the inbound
\* stream, and every goroutine may be preempted while it holds the mutex.  The
\* stopper runs throughout, the dial and the writes succeed, and the remote
\* closes the outbound streams.
NextMu ==
  \/ \E r \in Replicas, e \in SoloEnvelopes :
       /\ MaySend(r, e[1], e[2], MaxWork)
       /\ SendAsyncLookup(1, r, e[1], e[2])
  \/ SendAsyncSpawn(1)
  \/ SendAsyncEnqueue(1)
  \/ \E c \in Chans : ResolveLookup(c)
  \/ \E c \in Chans : ResolveWaitDone(c, TRUE)
  \/ \E c \in Chans, ok \in Oks : ResolveAttempt(c, ok)
  \/ \E c \in Chans : ResolveBackoff(c)
  \/ \E c \in Chans : ResolveUnlookup(c)
  \/ \E c \in Chans : Connect(c, "nil")
  \/ \E c \in Chans : StartReader(c)
  \/ \E c \in Chans : ReaderRecv(c, "errRecv")
  \/ \E c \in Chans : LoopIdle(c)
  \/ \E c \in Chans : LoopErrCh(c)
  \/ \E c \in Chans : LoopSend(c, "nil")
  \/ \E c \in Chans : PublishStatus(c)
  \/ \E c \in Chans : DeleteQueue(c)
  \/ \E c \in Chans : LockPump(c)
  \/ /\ \E r \in Replicas, e \in SoloEnvelopes :
          MaySend(r, e[1], e[2], MaxWork) /\ ~MustPanic(NewReq(r, e[1], e[2]))
     /\ LockCaller(1)
  \/ LockStore(1)
  \/ Listen(1, 1)
  \/ StopListening(1)
  \/ LockInbound
  \/ RaftMessage
  \/ nrecv = 0 /\ WorkerRecv(1)
  \/ WorkerLookup
  \/ WorkerHandle("errHandler")
  \/ ServeErrCh

SpecMu == Init /\ [][NextMu]_vars

\* ------------------------------------------------------------------ claims

Ids(seq) == {seq[i].id : i \in 1..Len(seq)}
Elems(seq) == {seq[i] : i \in 1..Len(seq)}

\* C1: the envelopes a pump has written to its stream are, in order, the
\* first envelopes enqueued on its queue: the i-th write is the i-th enqueue.
C1_WireIsEnqueueOrder ==
  \A c \in Chans :
    /\ Len(wire[c]) <= Len(enq[c])
    /\ \A i \in 1..Len(wire[c]) : wire[c][i].id = enq[c][i]

\* C1 witness: two concurrent callers enqueued in the reverse order of their
\* calls, and the pump wrote both envelopes.
C1_Witness ==
  \E c \in Chans :
    /\ Len(wire[c]) >= 2
    /\ wire[c][1].id > wire[c][2].id

Heartbeats == {"MsgHeartbeat", "MsgHeartbeatResp"}

\* What SendAsync shares with the other callers and the workers.
shared == <<stopper, registryVars, queue, pumpVars, resolveVars, readerVars,
            enq, wireVars, cbVars>>

\* C3: a call of SendAsync with an envelope on range 0 that is no heartbeat
\* and no heartbeat response panics, leaving every queue, the registry and
\* every worker as they were; a call with a heartbeat or a heartbeat response
\* on range 0 does not panic.
C3_PanicOnRangeZero ==
  [][\A k \in Callers :
       (cpc[k] = "idle" /\ cpc'[k] # "idle") =>
         /\ (creq'[k].range = 0 /\ creq'[k].type \notin Heartbeats)
              => (cpc'[k] = "panicked" /\ UNCHANGED shared)
         /\ (creq'[k].range = 0 /\ creq'[k].type \in Heartbeats)
              => cpc'[k] # "panicked"]_vars

\* C3 witness: a call with a snapshot on range 0 panicked while the other
\* caller's heartbeat on range 0 was accepted.
C3_Witness ==
  \E k \in Callers :
    /\ cpc[k] = "panicked"
    /\ creq[k].type = "MsgSnap"
    /\ \E c \in Chans : Len(enq[c]) > 0

Last(seq) == seq[Len(seq)]
Front(seq) == SubSeq(seq, 1, Len(seq) - 1)
KeyOf(c) == <<chTo[c], chSnap[c]>>
Returned(c) == ppc[c] \in {"delete", "done"}
InResolve(c) == ppc[c] \in {"attempt", "backoff", "unlookup"}
Written == UNION {Ids(wire[c]) : c \in Chans}
WriteFailed(c) == wire[c] # <<>> /\ Last(wire[c]).err # "nil"

\* C4 (as claimed): at any time at most one resolveNodeID call per node is
\* in the retry loop, and a resolveNodeID call returns an address or, after
\* the quiesce signal, the "stopped before completion" error, never a failure
\* of the lookup.
C4_OneLoopWaitersSucceed ==
  /\ \A n \in Nodes :
       Cardinality({c \in Chans : InResolve(c) /\ NodeOf(chTo[c]) = n}) <= 1
  /\ \A c \in Chans :
       (ppc[c] = "delete" /\ exitAt[c] = "resolve") =>
         (perr[c] = "errStopped" /\ ShouldQuiesce)

\* What C5 says besides the value the callback gets: a pump calls the
\* callback at most once, and once when it has returned; the worker that has
\* ended has removed its queue from the registry; and no envelope left in the
\* queue of a pump whose write failed is ever written to a stream.
C5_TearDown ==
  \A c \in Chans :
    /\ ncb[c] = (IF Returned(c) THEN 1 ELSE 0)
    /\ ppc[c] = "done" => queues[KeyOf(c)] # c
    /\ (Returned(c) /\ WriteFailed(c)) => Ids(queue[c]) \cap Written = {}

\* C5 (as claimed): as C5_TearDown, and a pump whose last write failed has
\* called the callback with that write error.
C5_CallbackGetsWriteError ==
  /\ C5_TearDown
  /\ \A c \in Chans :
       (ppc[c] = "delete" /\ WriteFailed(c)) =>
         cbLog[c] = <<[err |-> Last(wire[c]).err, to |-> chTo[c], by |-> owner[c]]>>

\* C5 (amended): as C5_TearDown, and after a failed write the callback gets
\* that write error, or nil when the envelope was a snapshot and the stop
\* signal came before its status was received.
C5_WriteFailureTearsDown ==
  /\ C5_TearDown
  /\ \A c \in Chans :
       (ppc[c] = "delete" /\ WriteFailed(c)) =>
         /\ exitAt[c] \in {"write", "stop"}
         /\ cbLog[c] = <<[err |-> IF exitAt[c] = "write" THEN Last(wire[c]).err
                                                      ELSE "nil",
                         to |-> chTo[c], by |-> owner[c]]>>
         /\ exitAt[c] = "stop" =>
              (chSnap[c] /\ ShouldStop /\ Len(statuses[c]) < Len(wire[c]))

\* C5 witness: the write of the first of two queued envelopes failed, the
\* callback got the error, the worker ended, and a pump made later for the
\* same destination and class wrote the envelope of a later call.
C5_Witness ==
  \E c \in Chans, d \in Chans :
    /\ c # d
    /\ KeyOf(c) = KeyOf(d)
    /\ ppc[c] = "done"
    /\ WriteFailed(c)
    /\ queue[c] # <<>>
    /\ wire[d] # <<>>

\* C6 (as claimed): the statuses received are the snapshots written, with the
\* results of their writes, except for the one the pump is publishing; no
\* status comes from a queue of the other class.
C6_StatusPerSnapshot ==
  \A c \in Chans :
    IF chSnap[c]
      THEN statuses[c] = (IF ppc[c] = "publish" THEN Front(wire[c]) ELSE wire[c])
      ELSE statuses[c] = <<>>

\* C6 (amended): as claimed, except that the last snapshot written has no
\* status when the stop signal came while the pump was publishing it, and the
\* pump then returned without taking another envelope.
C6_StatusPerSnapshotUnlessStopped ==
  \A c \in Chans :
    /\ \A i \in 1..Len(queue[c]) : IsSnap(queue[c][i]) = chSnap[c]
    /\ IF chSnap[c]
         THEN \/ /\ ppc[c] # "publish"
                 /\ statuses[c] = wire[c]
              \/ /\ wire[c] # <<>>
                 /\ statuses[c] = Front(wire[c])
                 /\ \/ ppc[c] = "publish"
                    \/ Returned(c) /\ ShouldStop
         ELSE statuses[c] = <<>> /\ ppc[c] # "publish"

\* C6 witness: two snapshots were written, the second write failed, and both
\* statuses were received.
C6_Witness ==
  \E c \in Chans :
    /\ Len(statuses[c]) = 2
    /\ statuses[c] = wire[c]
    /\ statuses[c][2].err = "errSend"

Resolved(c) == ppc[c] \in {"dial", "startReader", "loop", "publish"}
KeyOfReq(req) == <<req.to, IsSnap(req)>>

\* The pump of queue c returned from its main loop with its reader still in
\* RecvMsg, having written nothing and with no stop signal: the idle timer
\* ended it.  Its worker has ended.
IdledOut(c) ==
  /\ ppc[c] = "done"
  /\ reader[c] = "cancelled"
  /\ wire[c] = <<>>
  /\ stopper # "stopped"

\* Queue d was made for the destination and class of a pump that idled out.
AfterIdle(d) ==
  \E c \in Chans : c < d /\ chTo[c] = chTo[d] /\ chSnap[c] = chSnap[d] /\ IdledOut(c)

\* What C8 says of every step but the start of the pump: the idle exit hands
\* nil to the callback; the worker that has ended has removed its queue from
\* the registry; a call that finds no queue for its destination and class
\* registers a new, empty queue that has no pump, and goes on to start one; a
\* pump starts at address resolution, with no call of the resolver behind it,
\* and has called the resolver before it dials.
C8_Recreate ==
  /\ \A c \in Chans :
       /\ (ppc[c] = "loop" /\ ppc'[c] = "delete" /\ exitAt'[c] = "idle") =>
            cbLog'[c] = <<[err |-> "nil", to |-> chTo[c], by |-> owner[c]]>>
       /\ ppc'[c] = "done" => queues'[KeyOf(c)] # c
       /\ (ppc[c] = "none" /\ ppc'[c] # "none") =>
            (ppc'[c] = "resolve" /\ ~resolverCalls'[c])
       /\ Resolved(c)' => resolverCalls'[c]
  /\ \A k \in Callers :
       (cpc[k] = "idle" /\ cpc'[k] \notin {"idle", "panicked"}
          /\ queues[KeyOfReq(creq'[k])] = 0) =>
         /\ cpc'[k] = "spawn"
         /\ nchan' = nchan + 1
         /\ cch'[k] = nchan'
         /\ queues'[KeyOfReq(creq'[k])] = cch'[k]
         /\ <<chTo'[cch'[k]], chSnap'[cch'[k]]>> = KeyOfReq(creq'[k])
         /\ queue'[cch'[k]] = <<>>
         /\ ppc'[cch'[k]] = "none"

C9_CallbackOncePerPump ==
  [][/\ \A c \in Chans :
          /\ ncb'[c] = (IF Returned(c)' THEN 1 ELSE 0)
          /\ ppc'[c] = "delete" =>
               /\ Len(cbLog'[c]) = 1
               /\ cbLog'[c][1].to = chTo'[c]
               /\ cbLog'[c][1].by = owner'[c]
               /\ cbLog'[c][1].err = perr'[c]
               /\ exitAt'[c] \in {"idle", "stop"} => perr'[c] = "nil"
               /\ exitAt'[c] = "resolve" => perr'[c] \in {"errLookup", "errStopped"}
               /\ exitAt'[c] = "dial" => perr'[c] = "errDial"
               /\ exitAt'[c] = "stream" => perr'[c] = "errStream"
               /\ exitAt'[c] = "runTask" => perr'[c] = "errRunTask"
               /\ exitAt'[c] = "write" => perr'[c] = "errSend"
               /\ exitAt'[c] = "reader" =>
                    (ppc[c] = "loop" => perr'[c] = errCh[c])
               /\ exitAt'[c] # "none"
     /\ \A k \in Callers :
          (cpc[k] = "enqueue" /\ cpc'[k] = "idle") =>
            /\ creq[k].id \in rejected' <=> creq[k].id \notin Elems(enq'[cch[k]])
            /\ creq[k].id \in rejected' <=> Len(queue[cch[k]]) = raftSendBufferSize
            /\ UNCHANGED <<pumpVars, cbVars>>]_vars

\* C9 witness: the reader's RecvMsg failed, the pump returned that error, and
\* the callback got it; a call made no difference to that.
C9_Witness ==
  \E c \in Chans :
    /\ ppc[c] = "delete"
    /\ exitAt[c] = "reader"
    /\ cbLog[c] = <<[err |-> "errRecv", to |-> chTo[c], by |-> owner[c]]>>
    /\ ncb[c] = 1
    /\ queue[c] # <<>>

\* C10: once the reader of a pump that is in its main loop, or publishing a
\* status, has returned from RecvMsg, the pump eventually returns, the
\* callback is called for it, and its queue leaves the registry.
C10_ReaderReturnEndsPump ==
  \A c \in Chans :
    (ppc[c] \in {"loop", "publish"} /\ reader[c] = "done")
      ~> (ppc[c] = "done" /\ ncb[c] = 1 /\ queues[KeyOf(c)] # c)

\* C10 witness: the reader returned an error, the pump took it from errCh
\* and returned without having written anything, the callback was called and
\* the worker removed the queue, with no call after the one that made it.
C10_Witness ==
  \E c \in Chans :
    /\ ppc[c] = "done"
    /\ reader[c] = "done"
    /\ errCh[c] = "empty"
    /\ wire[c] = <<>>
    /\ Len(enq[c]) = 1
    /\ nextId = 1
    /\ ncb[c] = 1
    /\ queues[KeyOf(c)] = 0

\* Queues c and d are the two classes of one destination.
Siblings(c, d) == c # d /\ chTo[c] # 0 /\ chTo[c] = chTo[d] /\ chSnap[c] # chSnap[d]
Established(c) == ppc[c] \in {"loop", "publish"}

\* C11: whatever the pump of the other class of the destination is doing,
\* blocked on SnapshotStatusChan or behind a full queue included, a queue holds
\* envelopes of its own class only, the enqueue of a call on it is enabled and
\* returns false exactly when its own queue is full, its pump in the main loop
\* can write the envelope at its head, and a pump that waits on the ledger
\* entry of an established sibling can go on; and neither the enqueue nor the
\* write changes the queue, the pump or the writes of the sibling.
C11_ClassesIndependent ==
  [][/\ \A d \in Chans : \A i \in 1..Len(queue'[d]) :
          (queue'[d][i].type = "MsgSnap") = chSnap'[d]
     /\ \A c \in Chans, d \in Chans :
       Siblings(c, d) =>
         /\ (ppc[d] = "loop" /\ queue[d] # <<>>) => ENABLED LoopSend(d, "nil")
         /\ (ppc[d] = "wait" /\ Established(c)) => ENABLED ResolveWaitDone(d, TRUE)
         /\ \A k \in Callers :
              (cpc[k] = "enqueue" /\ cch[k] = d) =>
                /\ ENABLED SendAsyncEnqueue(k)
                /\ cpc'[k] = "idle" =>
                     /\ creq[k].id \in rejected' <=> Len(queue[d]) = raftSendBufferSize
                     /\ creq[k].id \notin rejected' => queue'[d] = Append(queue[d], creq[k])
         /\ (wire'[d] # wire[d] \/ queue'[d] # queue[d]) =>
              /\ wire'[d] # wire[d] => wire'[d] = Append(wire[d], [id |-> Head(queue[d]).id,
                                                                 err |-> Last(wire'[d]).err])
              /\ UNCHANGED <<queue[c], ppc[c], wire[c], statuses[c], reader[c], errCh[c]>>]_vars

\* C11 witness: the snapshot pump is blocked publishing the status of its
\* first write, and the pump of the other class of the destination has since
\* written two envelopes that were sent after the snapshot.
C11_Witness ==
  \E c \in Chans, d \in Chans :
    /\ Siblings(c, d)
    /\ chSnap[c]
    /\ ppc[c] = "publish"
    /\ Len(wire[c]) = 1
    /\ Len(wire[d]) = 2
    /\ \A i \in 1..2 : wire[d][i].id > wire[c][1].id

\* What C12 says of the worker: an envelope is dispatched once its number is
\* the next received, to the handler the registry held for its store when the
\* worker looked it up; a failed read, a store without handler and a handler
\* that fails end the worker with that error on errCh and nothing dispatched
\* for the store without handler; a worker that has ended dispatches nothing.
C12_Dispatch ==
  /\ (wpc = "lookup" /\ wpc' # "lookup") =>
       IF handlers[wreq] = 0
         THEN wpc' = "done" /\ inErrCh' = "errNoStore" /\ dispatched' = dispatched
         ELSE wpc' = "handle" /\ whandler' = handlers[wreq] /\ dispatched' = dispatched
  /\ dispatched' # dispatched =>
       /\ wpc = "handle"
       /\ Len(dispatched') = Len(dispatched) + 1
       /\ SubSeq(dispatched', 1, Len(dispatched)) = dispatched
       /\ LET call == Last(dispatched') IN
            /\ call.n = nrecv /\ call.store = wreq /\ call.handler = whandler
            /\ \A i \in 1..Len(dispatched) : dispatched[i].n < call.n
            /\ IF call.res = "nil"
                 THEN wpc' = "recv" /\ inErrCh' = inErrCh
                 ELSE wpc' = "done" /\ inErrCh' = call.res
  /\ (wpc = "recv" /\ wpc' = "done") => inErrCh' = "errRecv"
  /\ wpc = "done" => (wpc' = "done" /\ dispatched' = dispatched)

\* C12 (as claimed): as C12_Dispatch, and RaftMessage returns the error that
\* ended the worker.
C12_ErrorIsResult ==
  [][/\ C12_Dispatch
     /\ (spc = "select" /\ spc' = "returned" /\ wpc = "done") =>
          (inErrCh # "empty" /\ sres' = inErrCh)]_vars

\* C12 (amended): as C12_Dispatch, and RaftMessage returns the error that
\* ended the worker, unless its select takes the quiesce signal, when it
\* returns the result of SendAndClose.
C12_ErrorIsResultUnlessQuiesced ==
  [][/\ C12_Dispatch
     /\ (spc = "select" /\ spc' = "returned" /\ wpc = "done") =>
          /\ inErrCh # "empty"
          /\ sres' = inErrCh \/ (ShouldQuiesce /\ sres' = "closed")
     /\ (spc = "select" /\ spc' = "returned" /\ wpc # "done") =>
          (ShouldQuiesce /\ sres' = "closed")]_vars

\* C12 witness: two envelopes for one store went to two handlers, the second
\* registered in between; the third found its store without handler, and
\* RaftMessage returned the "no store registered" error.
C12_Witness ==
  /\ Len(dispatched) = 2
  /\ dispatched[1].store = dispatched[2].store
  /\ dispatched[1].handler # dispatched[2].handler
  /\ nrecv = 3
  /\ spc = "returned"
  /\ sres = "errNoStore"

\* The worker of queue c has been started and processQueue has not returned.
Live(c) == ppc[c] \notin {"none", "delete", "done"}
\* The worker of queue c has been started and has not ended.
Running(c) == ppc[c] \notin {"none", "done"}

\* C13: no two queues made for the same destination and class have workers
\* that are running at the same time, a worker being counted until it has
\* removed its queue, so after processQueue has returned as well.
C13_OnePumpPerKey ==
  \A c \in Chans, d \in Chans :
    (c # d /\ chTo[c] # 0 /\ chTo[c] = chTo[d] /\ chSnap[c] = chSnap[d]) =>
      ~(Running(c) /\ Running(d))

\* C13 witness: the worker of a queue has ended, leaving an envelope in it,
\* and the pump of a later queue of the same destination and class, made by
\* the other caller, is in its main loop.
C13_Witness ==
  \E c \in Chans, d \in Chans :
    /\ c < d
    /\ chTo[c] = chTo[d] /\ chSnap[c] = chSnap[d]
    /\ ppc[c] = "done"
    /\ queue[c] # <<>>
    /\ ppc[d] = "loop"
    /\ owner[d] # owner[c]

\* Queue c is the one the registry holds for its destination and class.
Registered(c) == chTo[c] # 0 /\ queues[KeyOf(c)] = c
\* The call that made queue c has not yet reached RunTask.
Spawning(c) == \E k \in Callers : cpc[k] = "spawn" /\ cch[k] = c

\* C14 (as claimed): once the call that made it has been through RunTask, a
\* queue is in the registry exactly while its pump is live, and an envelope is
\* accepted only onto a queue whose pump is live or about to be started.
C14_RegisteredIffLive ==
  [][/\ \A c \in Chans :
          /\ (Registered(c)' /\ ~Spawning(c)') => Live(c)'
          /\ Live(c)' => Registered(c)'
     /\ \A k \in Callers :
          (cpc[k] = "enqueue" /\ cpc'[k] = "idle" /\ creq[k].id \notin rejected') =>
            (Live(cch[k]) \/ Spawning(cch[k]))]_vars

\* C15: whoever holds the mutex is at one of the Lock calls, not at a dial, a
\* stream read or write, a backoff, the ledger wait, a send on a queue or on
\* SnapshotStatusChan, or a call of a handler or of the callback; and a step
\* that reads or changes the handler, queue or ledger map is made by a
\* goroutine that holds the mutex, or takes it, and gives it back.
C15_MutexAroundMapsOnly ==
  [][/\ \A c \in Chans : mu' = PumpThread(c) => ppc'[c] \in PumpLocks
     /\ \A k \in Callers : mu' = CallerThread(k) => cpc'[k] = "idle"
     /\ mu' = InboundThread => wpc' = "lookup"
     /\ \A c \in Chans :
          (ppc[c] \in PumpLocks /\ ppc'[c] # ppc[c]) =>
            (mu \in {Free, PumpThread(c)} /\ mu' = Free)
     /\ \A k \in Callers :
          (cpc[k] = "idle" /\ cpc'[k] \in {"spawn", "enqueue"}) =>
            (mu \in {Free, CallerThread(k)} /\ mu' = Free)
     /\ (wpc = "lookup" /\ wpc' # "lookup") =>
          (mu \in {Free, InboundThread} /\ mu' = Free)
     /\ queues' # queues =>
          \/ \E k \in Callers : cpc[k] = "idle" /\ cpc'[k] = "spawn"
          \/ \E c \in Chans : ppc[c] = "delete" /\ ppc'[c] = "done"
     /\ addrLookups' # addrLookups =>
          \E c \in Chans : ppc[c] \in {"resolve", "unlookup"} /\ ppc'[c] # ppc[c]
     /\ handlers' # handlers =>
          \E s \in Stores : mu \in {Free, StoreThread(s)} /\ mu' = Free
                              /\ \A t \in Stores \ {s} : handlers'[t] = handlers[t]
     /\ mu' # mu =>
          \/ mu = Free
          \/ mu' = Free]_vars

\* C15 witness: a pump holds the mutex at the deferred delete of its ledger
\* entry while another pump waits on that entry and the caller is at its send
\* on the queue.
C15_Witness ==
  \E c \in Chans, d \in Chans :
    /\ mu = PumpThread(c)
    /\ ppc[c] = "unlookup"
    /\ ppc[d] = "wait"
    /\ waitOn[d] = c
    /\ cpc[1] = "enqueue"

\* No pump, reader, RaftMessage call or inbound worker is running.
AllWorkersEnded ==
  /\ \A c \in Chans : ppc[c] \in {"none", "done"} /\ reader[c] # "running"
  /\ spc \in {"none", "returned"}
  /\ wpc \in {"none", "done"}

\* C16: once the stopper has stopped, every pump (in the retry loop, waiting
\* on the ledger, in its main loop or publishing a status nobody receives),
\* every reader and the inbound RaftMessage call and its worker end.
C16_ShutdownEndsWorkers == ShouldStop ~> AllWorkersEnded

\* C16 witness: after the stop all workers have ended; a pump that had written
\* a snapshot left at the stop signal with the status never received, its
\* reader was cancelled, and RaftMessage returned from SendAndClose.
C16_Witness ==
  /\ ShouldStop
  /\ AllWorkersEnded
  /\ sres = "closed"
  /\ \E c \in Chans :
       /\ chSnap[c]
       /\ Len(wire[c]) = 1
       /\ statuses[c] = <<>>
       /\ reader[c] = "cancelled"

\* The worker of queue c is in a resolveNodeID call.
Resolving(c) == ppc[c] \in {"resolve", "wait", "attempt", "backoff", "unlookup"}

\* C17: the ledger has an entry for a node exactly while the call that
\* installed it is in its retry loop or at its deferred delete; an entry goes
\* away only in the step in which its installer returns, with an address or
\* with the "stopped before completion" error; with no resolveNodeID call in
\* progress the ledger is empty.
C17_LedgerEntryLifetime ==
  [][/\ \A n \in Nodes :
          addrLookups'[n] # 0 =>
            /\ ppc'[addrLookups'[n]] \in {"attempt", "backoff", "unlookup"}
            /\ NodeOf(chTo'[addrLookups'[n]]) = n
     /\ \A c \in Chans : InResolve(c)' => addrLookups'[NodeOf(chTo'[c])] = c
     /\ \A n \in Nodes :
          (addrLookups[n] # 0 /\ addrLookups'[n] # addrLookups[n]) =>
            /\ addrLookups'[n] = 0
            /\ ppc[addrLookups[n]] = "unlookup"
            /\ ppc'[addrLookups[n]] \in {"dial", "delete"}
     /\ (\A c \in Chans : ~Resolving(c)') => (\A n \in Nodes : addrLookups'[n] = 0)
    ]_vars

\* C17 witness: the ledger is empty after an installer returned an address and
\* a later installer for the same node was ended by the quiesce signal.
C17_Witness ==
  \E c \in Chans, d \in Chans :
    /\ c # d
    /\ NodeOf(chTo[c]) = NodeOf(chTo[d])
    /\ ppc[c] = "delete" /\ exitAt[c] = "resolve" /\ perr[c] = "errStopped"
    /\ waitOn[c] = 0
    /\ ppc[d] = "loop" /\ waitOn[d] = 0
    /\ \A n \in Nodes : addrLookups[n] = 0

\* A lookup made for the worker of queue c has just failed: the retrying call
\* is in its backoff, or the waiting call has returned the failure.
LookupFailed(c) ==
  \/ ppc[c] = "backoff"
  \/ ppc[c] = "delete" /\ exitAt[c] = "resolve" /\ perr[c] = "errLookup"

\* What the retrying call returns: the "stopped before completion" error
\* after the quiesce signal, and otherwise the address of the lookup that
\* closed the ledger channel.
C18_RetrierReturns ==
  \A c \in Chans :
    /\ (waitOn[c] = 0 /\ ppc[c] = "delete" /\ exitAt[c] = "resolve") =>
         (perr[c] = "errStopped" /\ ShouldQuiesce)
    /\ (waitOn[c] = 0 /\ ppc[c] = "unlookup") =>
         \/ perr[c] = "nil" /\ closedLk[c]
         \/ perr[c] = "errStopped" /\ ShouldQuiesce

\* C18 (as claimed): the retrying call returns an address after a lookup that
\* succeeded or, after the quiesce signal, the "stopped before completion"
\* error, never the failure of a lookup; and when the stopper keeps running and
\* lookups fail only finitely often, every resolveNodeID call, retrying or
\* waiting, returns an address.
C18_EveryCallGetsAddress ==
  /\ []C18_RetrierReturns
  /\ ([]~ShouldQuiesce /\ <>[](\A c \in Chans : ~LookupFailed(c)))
       => \A c \in Chans : Resolving(c) ~> ppc[c] = "dial"

\* C19: an envelope a pump writes is the one it takes from its queue, where a
\* SendAsync call for the pump's destination and class put it and returned
\* true; it has not been written before, by any pump, and is in no queue any
\* more once written, whether or not the write or the pump fails; an envelope
\* that SendAsync rejected is never written.
C19_WrittenWereAcceptedOnce ==
  [][/\ \A c \in Chans :
          wire'[c] # wire[c] =>
            /\ queue[c] # <<>>
            /\ wire'[c] = Append(wire[c], Last(wire'[c]))
            /\ Last(wire'[c]).id = Head(queue[c]).id
            /\ KeyOfReq(Head(queue[c])) = <<chTo[c], chSnap[c]>>
            /\ \E i \in 1..Len(enq[c]) : enq[c][i] = Last(wire'[c]).id
            /\ Last(wire'[c]).id \notin Written
     /\ \A c \in Chans : Written' \cap Ids(queue'[c]) = {}
     /\ Written' \cap rejected' = {}
    ]_vars

\* C19 witness: a pump wrote one envelope, failed writing the next and has
\* ended; a third envelope had been rejected by the full queue.
C19_Witness ==
  \E c \in Chans :
    /\ Len(wire[c]) = 2
    /\ wire[c][1].err = "nil"
    /\ wire[c][2].err = "errSend"
    /\ ppc[c] = "done"
    /\ rejected # {}

====
